---- MODULE Spec2Model ----
(***************************************************************************)
(* Resolution and validation of the verb lexicon / relation vocabulary:    *)
(* tools/build_stage.py (stager), tools/validate_vocabularies.py           *)
(* (validator), tools/merge_seed_taxonomies.py (merger) and                *)
(* tools/check_duplicates.py (duplicate report).                           *)
(*                                                                         *)
(* A Python str is a sequence of code points, a list is a sequence, a dict *)
(* is a function whose DOMAIN is its key set.  A mapping whose iteration   *)
(* order matters (the rels mapping) is the sequence of its items.          *)
(***************************************************************************)
EXTENDS Integers, Sequences, FiniteSets, TLC

VARIABLES coreDoc, relsDoc, seedDoc, drop_verbs, now,
          stageRuns, valRuns, mergeRuns, dupRuns

vars == <<coreDoc, relsDoc, seedDoc, drop_verbs, now,
          stageRuns, valRuns, mergeRuns, dupRuns>>

(* ------------------------------ bounds --------------------------------- *)
MaxVerbs == 2
MaxSyns == 2
MaxRels == 2
MaxInv == 1
MaxRuns == 2
MaxClock == 1
MaxSeedKeys == 1

(* ------------------------------ strings -------------------------------- *)
IsSpace(c) == c \in {9, 10, 11, 12, 13, 32}

LowerChar(c) == IF c >= 65 /\ c <= 90 THEN c + 32 ELSE c

\* str.lower
Lower(s) == [i \in 1..Len(s) |-> LowerChar(s[i])]

RECURSIVE LStrip(_)
LStrip(s) == IF s # <<>> /\ IsSpace(Head(s)) THEN LStrip(Tail(s)) ELSE s

RECURSIVE RStrip(_)
RStrip(s) == IF s # <<>> /\ IsSpace(s[Len(s)]) THEN RStrip(SubSeq(s, 1, Len(s) - 1)) ELSE s

\* str.strip
Strip(s) == RStrip(LStrip(s))

\* str.__lt__ : lexicographic on code points
RECURSIVE StrLess(_, _)
StrLess(a, b) ==
    IF b = <<>> THEN FALSE
    ELSE IF a = <<>> THEN TRUE
    ELSE IF Head(a) # Head(b) THEN Head(a) < Head(b)
    ELSE StrLess(Tail(a), Tail(b))

\* the literals the programs name
NULL_STR == <<110, 117, 108, 108>>

\* dict.get(k, default)
Get(d, k, default) == IF k \in DOMAIN d THEN d[k] ELSE default

\* (d.get(k) or default) for a str/list valued key
GetOr(d, k, default) == IF k \in DOMAIN d /\ d[k] # <<>> THEN d[k] ELSE default

Range(s) == {s[i] : i \in 1..Len(s)}

(* --------------------------- build_stage.py ---------------------------- *)
RECURSIVE de_dupe_from(_, _, _)
de_dupe_from(items, seen, out) ==
    IF items = <<>> THEN out
    ELSE LET x == Head(items)
             k == Lower(x)
         IN IF k \notin seen
            THEN de_dupe_from(Tail(items), seen \cup {k}, Append(out, x))
            ELSE de_dupe_from(Tail(items), seen, out)

RECURSIVE de_dupe_exact_from(_, _, _)
de_dupe_exact_from(items, seen, out) ==
    IF items = <<>> THEN out
    ELSE LET x == Head(items)
         IN IF x \notin seen
            THEN de_dupe_exact_from(Tail(items), seen \cup {x}, Append(out, x))
            ELSE de_dupe_exact_from(Tail(items), seen, out)

\* faulty variant: the key is the item itself, not its lowercase
de_dupe_case_sensitive(items) == de_dupe_exact_from(items, {}, <<>>)

de_dupe_preserve_order(items) == de_dupe_from(items, {}, <<>>)

\* [s.strip() for s in (v.get("synonyms") or []) if s]
RECURSIVE StripNonEmpty(_)
StripNonEmpty(syns) ==
    IF syns = <<>> THEN <<>>
    ELSE IF Head(syns) # <<>>
         THEN <<Strip(Head(syns))>> \o StripNonEmpty(Tail(syns))
         ELSE StripNonEmpty(Tail(syns))

\* sorted(set(synonyms), key=str.lower): the sort is stable over the set's
\* iteration order, which for str elements depends on the process's hash
\* seed; every arrangement of the set that is ordered by the key can result.
SortedSetOutcomes(S) ==
    LET n == Cardinality(S)
    IN { p \in [1..n -> S] :
           /\ \A i, j \in 1..n : i # j => p[i] # p[j]
           /\ \A i, j \in 1..n : i < j => ~StrLess(Lower(p[j]), Lower(p[i])) }

\* the verb entries that raise "Found a core verb without an 'id'."
MissingId(core_entries) ==
    \E i \in 1..Len(core_entries) : Strip(GetOr(core_entries[i], "id", <<>>)) = <<>>

\* one entry after the indexing loop: v["synonyms"] is assigned in place
NormalizeEntryOutcomes(v) ==
    { ("synonyms" :> p) @@ v :
        p \in SortedSetOutcomes(Range(StripNonEmpty(GetOr(v, "synonyms", <<>>)))) }

\* core_entries after the indexing loop
NormalizedOutcomes(core_entries) ==
    LET n == Len(core_entries)
    IN { es \in [1..n -> UNION {NormalizeEntryOutcomes(core_entries[i]) : i \in 1..n}] :
           \A i \in 1..n : es[i] \in NormalizeEntryOutcomes(core_entries[i]) }

\* core_index[vid] = v : a later entry with the same stripped id replaces an
\* earlier one
CoreIndex(entries) ==
    [k \in {Strip(entries[i]["id"]) : i \in 1..Len(entries)} |->
        entries[CHOOSE i \in 1..Len(entries) :
                   /\ Strip(entries[i]["id"]) = k
                   /\ \A j \in 1..Len(entries) : Strip(entries[j]["id"]) = k => j <= i]]

\* sorted(rels_map.items(), key=lambda x: x[0].lower()) : a stable sort of the
\* mapping's items (document order) by lowercase key
SortedItems(items) ==
    LET n == Len(items)
        Before(k, j) == \/ StrLess(Lower(items[k].key), Lower(items[j].key))
                        \/ /\ Lower(items[k].key) = Lower(items[j].key)
                           /\ k < j
        Rank(j) == 1 + Cardinality({k \in 1..n : Before(k, j)})
    IN [r \in 1..n |-> items[CHOOSE j \in 1..n : Rank(j) = r]]

RelIds(items) == {items[i].key : i \in 1..Len(items)}

\* lex_ref = (rel_copy.get("lex_ref") or "").strip()
StageLexRef(rel) == Strip(GetOr(rel, "lex_ref", <<>>))

\* not lex_ref or lex_ref not in core_index
LexRefInvalid(rel, core_index) ==
    StageLexRef(rel) = <<>> \/ StageLexRef(rel) \notin DOMAIN core_index

\* the body of the resolve loop up to the inverse_of check: rel_copy
StageRel(rid, rel, core_index, drop) ==
    LET c1 == ("id" :> GetOr(rel, "id", rid)) @@ rel
        vr == IF LexRefInvalid(c1, core_index) THEN <<>>
              ELSE LET lex == core_index[StageLexRef(c1)]
                   IN de_dupe_preserve_order(<<lex["id"]>> \o Get(lex, "synonyms", <<>>))
        c2 == ("verbs_resolved" :> vr) @@ c1
    IN IF drop /\ "verbs" \in DOMAIN c2
       THEN [k \in DOMAIN c2 \ {"verbs"} |-> c2[k]]
       ELSE c2

\* faulty variant: an empty reference is not reported (the validator's condition)
StageLexIssuesNonEmptyOnly(rid, rel, core_index) ==
    IF StageLexRef(rel) # <<>> /\ LexRefInvalid(rel, core_index)
    THEN << [rel |-> rid, lex_ref |-> StageLexRef(rel)] >>
    ELSE <<>>

\* issues["invalid_lex_ref"].append({"rel": rid, "lex_ref": lex_ref})
StageLexIssues(rid, rel, core_index) ==
    IF LexRefInvalid(rel, core_index)
    THEN << [rel |-> rid, lex_ref |-> StageLexRef(rel)] >>
    ELSE <<>>

\* the issues of the targets t of a list for which Bad(t)
RECURSIVE TargetIssues(_, _, _)
TargetIssues(rid, targets, valid) ==
    IF targets = <<>> THEN <<>>
    ELSE (IF Head(targets) \notin valid
          THEN << [rel |-> rid, target |-> Head(targets)] >> ELSE <<>>)
         \o TargetIssues(rid, Tail(targets), valid)

\* build_stage.py: "Validate inverse_of targets"
StageInvIssues(rid, rel, valid_rel_ids) ==
    IF "inverse_of" \notin DOMAIN rel THEN <<>>
    ELSE LET inv == rel["inverse_of"]
         IN IF inv.isList
            THEN TargetIssues(rid, inv.items, valid_rel_ids)
            ELSE IF Lower(inv.items[1]) # NULL_STR /\ inv.items[1] \notin valid_rel_ids
                 THEN << [rel |-> rid, target |-> inv.items[1]] >>
                 ELSE <<>>

RECURSIVE StageLoop(_, _, _, _)
StageLoop(sorted, core_index, valid_rel_ids, drop) ==
    IF sorted = <<>>
    THEN [staged_rels |-> <<>>, invalid_lex_ref |-> <<>>, invalid_inverse_targets |-> <<>>]
    ELSE LET rid == Head(sorted).key
             rel == Head(sorted).rel
             rest == StageLoop(Tail(sorted), core_index, valid_rel_ids, drop)
         IN [staged_rels |-> <<StageRel(rid, rel, core_index, drop)>> \o rest.staged_rels,
             invalid_lex_ref |->
                 StageLexIssues(rid, rel, core_index) \o rest.invalid_lex_ref,
             invalid_inverse_targets |->
                 StageInvIssues(rid, rel, valid_rel_ids) \o rest.invalid_inverse_targets]

CORE_FILE == "JBFragmentEngine-main/data/core_verb_lexicon.yaml"
RELS_FILE == "JBFragmentEngine-main/data/rels_vocabulary.yaml"

\* the three artifacts of one successful run, given the normalised entries
StageFiles(core_entries, rels_items, drop, timestamp) ==
    LET r == StageLoop(SortedItems(rels_items), CoreIndex(core_entries),
                       RelIds(rels_items), drop)
        issues == [invalid_lex_ref |-> r.invalid_lex_ref,
                   invalid_inverse_targets |-> r.invalid_inverse_targets]
        summary == [generated_at |-> timestamp,
                    core_file |-> CORE_FILE,
                    rels_file |-> RELS_FILE,
                    rels_count |-> Len(r.staged_rels),
                    verbs_count |-> Len(core_entries),
                    issues |-> [invalid_lex_ref |-> Len(r.invalid_lex_ref),
                                invalid_inverse_targets |-> Len(r.invalid_inverse_targets)]]
    IN [rels_preview |-> [rels |-> r.staged_rels, summary |-> summary],
        lexicon_preview |-> [verbs |-> core_entries, summary |-> summary],
        stage_report |-> [summary |-> summary, issues_detail |-> issues]]

\* the outcomes of one run of main(): exit status and the files written
StageOutcomes(core, rels_doc, drop, timestamp) ==
    LET core_entries == GetOr(core, "verbs", <<>>)
        rels_items == Get(rels_doc, "rels", <<>>)
    IN IF MissingId(core_entries)
       THEN { [exit |-> 1, files |-> <<>>] }
       ELSE { [exit |-> 0, files |-> StageFiles(es, rels_items, drop, timestamp)] :
                es \in NormalizedOutcomes(core_entries) }

\* one run of build_stage.py on the documents on disk
BuildStage ==
    /\ Len(stageRuns) < MaxRuns
    /\ \E out \in StageOutcomes(coreDoc, relsDoc, drop_verbs, now) :
          stageRuns' = Append(stageRuns, out)
    /\ UNCHANGED <<coreDoc, relsDoc, seedDoc, drop_verbs, now, valRuns, mergeRuns, dupRuns>>

\* datetime.now() moves on between runs
Tick ==
    /\ now < MaxClock
    /\ now' = now + 1
    /\ UNCHANGED <<coreDoc, relsDoc, seedDoc, drop_verbs, stageRuns, valRuns, mergeRuns, dupRuns>>

(* ----------------------- validate_vocabularies.py ---------------------- *)
\* core_ids: the ids of the entries that have a truthy id, as written
ValCoreIds(core_entries) ==
    { core_entries[i]["id"] : i \in { j \in 1..Len(core_entries) :
                                         GetOr(core_entries[j], "id", <<>>) # <<>> } }

\* for field in ("id", "description"): if field not in rel
ValFieldIssues(rid, rel) ==
    (IF "id" \notin DOMAIN rel
     THEN << [rel |-> rid, missing_field |-> "id"] >> ELSE <<>>)
    \o (IF "description" \notin DOMAIN rel
        THEN << [rel |-> rid, missing_field |-> "description"] >> ELSE <<>>)

\* if lex_ref and lex_ref not in core_ids
ValLexIssues(rid, rel, core_ids) ==
    LET lex_ref == Get(rel, "lex_ref", <<>>)
    IN IF lex_ref # <<>> /\ lex_ref \notin core_ids
       THEN << [rel |-> rid, lex_ref |-> lex_ref] >>
       ELSE <<>>

\* validate_vocabularies.py: "inverse_of targets exist"
ValInvIssues(rid, rel, rel_ids) ==
    IF "inverse_of" \notin DOMAIN rel THEN <<>>
    ELSE LET inv == rel["inverse_of"]
         IN IF inv.isList
            THEN TargetIssues(rid, inv.items, rel_ids)
            ELSE IF inv.items[1] # <<>>
                    /\ inv.items[1] \notin rel_ids /\ Lower(inv.items[1]) # NULL_STR
                 THEN << [rel |-> rid, target |-> inv.items[1]] >>
                 ELSE <<>>

RECURSIVE ValLoop(_, _, _)
ValLoop(items, core_ids, rel_ids) ==
    IF items = <<>>
    THEN [missing_lex_ref_in_core |-> <<>>, invalid_inverse_targets |-> <<>>,
          empty_or_missing_fields |-> <<>>]
    ELSE LET rid == Head(items).key
             rel == Head(items).rel
             rest == ValLoop(Tail(items), core_ids, rel_ids)
         IN [missing_lex_ref_in_core |->
                 ValLexIssues(rid, rel, core_ids) \o rest.missing_lex_ref_in_core,
             invalid_inverse_targets |->
                 ValInvIssues(rid, rel, rel_ids) \o rest.invalid_inverse_targets,
             empty_or_missing_fields |->
                 ValFieldIssues(rid, rel) \o rest.empty_or_missing_fields]

\* faulty variant: clean as soon as one kind has no issue
ValCleanAny(summary) == \E k \in DOMAIN summary : summary[k] = 0

\* clean = all(count == 0 for count in summary.values())
ValClean(summary) == \A k \in DOMAIN summary : summary[k] = 0

\* main(core_path, rels_path): the printed result and the return value
ValidateRun(core_doc, rels_doc) ==
    LET rels == Get(rels_doc, "rels", <<>>)
        issues == ValLoop(rels, ValCoreIds(Get(core_doc, "verbs", <<>>)), RelIds(rels))
        summary == [k \in DOMAIN issues |-> Len(issues[k])]
        clean == ValClean(summary)
    IN [result |-> [core_file |-> CORE_FILE,
                    rels_file |-> RELS_FILE,
                    summary |-> summary,
                    issues |-> issues,
                    status |-> IF clean THEN "OK" ELSE "ISSUES_FOUND"],
        exit |-> IF clean THEN 0 ELSE 1]

\* one run of validate_vocabularies.py on the documents on disk
Validate ==
    /\ valRuns = <<>>
    /\ valRuns' = <<ValidateRun(coreDoc, relsDoc)>>
    /\ UNCHANGED <<coreDoc, relsDoc, seedDoc, drop_verbs, now, stageRuns, mergeRuns, dupRuns>>

(* ----------------------- merge_seed_taxonomies.py ---------------------- *)
\* faulty variant: a fresh document holding only the two new keys
MergedFresh(core, rels, seed) ==
    ("verbs" :> Get(core, "verbs", <<>>)) @@ ("rels" :> Get(rels, "rels", <<>>))

\* merged = dict(seed); merged["verbs"] = verbs; merged["rels"] = rels_data
Merged(core, rels, seed) ==
    ("verbs" :> Get(core, "verbs", <<>>)) @@ ("rels" :> Get(rels, "rels", <<>>)) @@ seed

\* one run of merge_seed_taxonomies.py: MERGED_PATH is written, SEED_PATH is not
Merge ==
    /\ mergeRuns = <<>>
    /\ mergeRuns' = <<Merged(coreDoc, relsDoc, seedDoc)>>
    /\ UNCHANGED <<coreDoc, relsDoc, seedDoc, drop_verbs, now, stageRuns, valRuns, dupRuns>>

(* -------------------------- check_duplicates.py ------------------------ *)
\* the verbs the first loop does not skip
WithId(verbs) == SelectSeq(verbs, LAMBDA v : GetOr(v, "id", <<>>) # <<>>)

\* all_synonyms paired with the primary of the entry each one is read from
RECURSIVE SynPairs(_)
SynPairs(verbs) ==
    IF verbs = <<>> THEN <<>>
    ELSE LET v == Head(verbs)
             syns == Get(v, "synonyms", <<>>)
         IN [i \in 1..Len(syns) |-> [syn |-> syns[i], primary |-> v["id"]]]
            \o SynPairs(Tail(verbs))

\* synonym_to_primary[syn]: synonym_to_primary.setdefault(syn, []).append(primary)
PrimariesOf(pairs, syn) ==
    LET mine == SelectSeq(pairs, LAMBDA pr : pr.syn = syn)
    IN [i \in 1..Len(mine) |-> mine[i].primary]

\* the keys of synonym_to_primary in insertion order
RECURSIVE FirstSeen(_, _)
FirstSeen(pairs, seen) ==
    IF pairs = <<>> THEN <<>>
    ELSE IF Head(pairs).syn \in seen THEN FirstSeen(Tail(pairs), seen)
         ELSE <<Head(pairs).syn>> \o FirstSeen(Tail(pairs), seen \cup {Head(pairs).syn})

\* check 2: for syn, primaries in synonym_to_primary.items(): if len(primaries) > 1
duplicate_synonyms(verbs) ==
    LET pairs == SynPairs(WithId(verbs))
        keys == FirstSeen(pairs, {})
        all == [i \in 1..Len(keys) |->
                   [syn |-> keys[i], primaries |-> PrimariesOf(pairs, keys[i])]]
    IN SelectSeq(all, LAMBDA d : Len(d.primaries) > 1)

\* check 1: primary terms that are keys of synonym_to_primary (set iteration)
overlaps(verbs) ==
    LET pairs == SynPairs(WithId(verbs))
    IN { [primary |-> pairs[i].syn, of |-> PrimariesOf(pairs, pairs[i].syn)] :
           i \in { j \in 1..Len(pairs) :
                     \E k \in 1..Len(WithId(verbs)) : WithId(verbs)[k]["id"] = pairs[j].syn } }

\* duplicates_in_entry: every occurrence of a synonym after its first
RECURSIVE RepeatsIn(_, _)
RepeatsIn(syns, seen) ==
    IF syns = <<>> THEN <<>>
    ELSE (IF Head(syns) \in seen THEN <<Head(syns)>> ELSE <<>>)
         \o RepeatsIn(Tail(syns), seen \cup {Head(syns)})

\* check 3: entries with a synonym repeated in their own list
internal_duplicates(verbs) ==
    LET all == [i \in 1..Len(verbs) |->
                   [id |-> Get(verbs[i], "id", <<>>),
                    repeats |-> RepeatsIn(Get(verbs[i], "synonyms", <<>>), {})]]
    IN SelectSeq(all, LAMBDA d : d.repeats # <<>>)

\* the report of one run over data.get("verbs", [])
DupReport(data) ==
    LET verbs == Get(data, "verbs", <<>>)
    IN [overlaps |-> overlaps(verbs),
        duplicate_synonyms |-> duplicate_synonyms(verbs),
        internal_duplicates |-> internal_duplicates(verbs),
        total_issues |-> Cardinality(overlaps(verbs)) + Len(duplicate_synonyms(verbs))
                           + Len(internal_duplicates(verbs))]

\* one run of check_duplicates.py on the seed document
CheckDuplicates ==
    /\ dupRuns = <<>>
    /\ dupRuns' = <<DupReport(seedDoc)>>
    /\ UNCHANGED <<coreDoc, relsDoc, seedDoc, drop_verbs, now, stageRuns, valRuns, mergeRuns>>

(* ------------------------------ inputs --------------------------------- *)
S_A == <<65>>
S_a == <<97>>
S_b == <<98>>
S_d == <<100>>
S_k == <<107>>
S_q == <<113>>
S_r == <<114>>
S_R == <<82>>
S_s == <<115>>
S_x == <<120>>
S_X == <<88>>
S_y == <<121>>
S_zz == <<122, 122>>
S_sp_A == <<32, 65>>
S_sp_b == <<32, 98>>
S_sp_x == <<32, 120>>
S_Null == <<78, 117, 108, 108>>

\* the entries with k synonyms
VerbsWith(ids, syns, k) ==
    { ("id" :> i) @@ ("synonyms" :> s) : i \in ids, s \in [1..k -> syns] }
    \cup (IF k = 0 THEN { ("id" :> i) : i \in ids } ELSE {})

\* the lists of n entries that hold at most budget synonyms in all
RECURSIVE VerbSeqs(_, _, _, _)
VerbSeqs(ids, syns, n, budget) ==
    IF n = 0 THEN { <<>> }
    ELSE UNION { { <<v>> \o rest : v \in VerbsWith(ids, syns, k),
                                    rest \in VerbSeqs(ids, syns, n - 1, budget - k) }
                 : k \in 0..budget }

\* the lexicon documents: up to MaxVerbs entries, up to MaxSyns synonyms
LexDocs(ids, syns) ==
    { ("verbs" :> es) : es \in UNION { VerbSeqs(ids, syns, n, MaxSyns) : n \in 0..MaxVerbs } }

NoRuns ==
    /\ stageRuns = <<>>
    /\ valRuns = <<>>
    /\ mergeRuns = <<>>
    /\ dupRuns = <<>>

(* ----- resolution: a rich lexicon, one relation that refers to it ------ *)
LexIdPool == {S_A, S_sp_b}
LexSynPool == {S_X, S_sp_x, S_y, S_a}
LexRefPool == {S_sp_A, S_b, S_zz}

InitLex ==
    /\ coreDoc \in LexDocs(LexIdPool, LexSynPool)
    /\ relsDoc \in { ("rels" :> << [key |-> S_r,
                                     rel |-> ("description" :> S_d) @@ ("lex_ref" :> l)] >>)
                      : l \in LexRefPool }
    /\ seedDoc = <<>>
    /\ drop_verbs = FALSE
    /\ now = 0
    /\ NoRuns

\* one run per behaviour
NextLex == stageRuns = <<>> /\ BuildStage

SpecLex == InitLex /\ [][NextLex]_vars

(* ----- two runs of the stager on the same documents, the clock moving -- *)
InitTwice ==
    /\ coreDoc \in { ("verbs" :> es) :
                       es \in VerbSeqs(LexIdPool, LexSynPool, 1, MaxSyns) }
    /\ relsDoc \in { ("rels" :> << [key |-> S_s,
                                     rel |-> ("description" :> S_d) @@ ("lex_ref" :> l)],
                                   [key |-> S_R,
                                     rel |-> ("description" :> S_d) @@ ("lex_ref" :> S_A)] >>)
                      : l \in LexRefPool }
    /\ seedDoc = <<>>
    /\ drop_verbs = FALSE
    /\ now = 0
    /\ NoRuns

NextTwice == BuildStage \/ Tick

SpecTwice == InitTwice /\ [][NextTwice]_vars

(* ----- references: relations that vary in lex_ref and required fields -- *)
\* the keys of the rels mapping in document order
RelKeys == <<S_s, S_R, S_r, S_q>>

\* the mappings of up to MaxRels relations drawn from pool
RelsDocs(pool) ==
    UNION { { ("rels" :> [i \in 1..n |-> [key |-> RelKeys[i], rel |-> rs[i]]]) :
                rs \in [1..n -> pool] } : n \in 0..MaxRels }

Absent == <<>>

Scalar(s) == [isList |-> FALSE, items |-> <<s>>]

List(ts) == [isList |-> TRUE, items |-> ts]

FieldProfiles ==
    { ("id" :> S_k) @@ ("description" :> S_d),
      ("description" :> <<>>),
      ("id" :> <<>>) }

RefRelPool ==
    { f @@ l @@ v :
        f \in FieldProfiles,
        l \in { Absent, ("lex_ref" :> S_A), ("lex_ref" :> S_sp_A), ("lex_ref" :> S_zz) },
        v \in { Absent, ("inverse_of" :> Scalar(S_q)) } }

RefCores ==
    { ("verbs" :> << ("id" :> S_A) @@ ("synonyms" :> <<S_x>>) >>),
      ("verbs" :> << ("id" :> S_A), ("id" :> <<>>) >>) }

InitRefs ==
    /\ coreDoc \in RefCores
    /\ relsDoc \in RelsDocs(RefRelPool)
    /\ seedDoc = <<>>
    /\ drop_verbs = FALSE
    /\ now = 0
    /\ NoRuns

NextRefs == (stageRuns = <<>> /\ BuildStage) \/ Validate

SpecRefs == InitRefs /\ [][NextRefs]_vars

(* ----- inverse targets: relations that vary in inverse_of and verbs ---- *)
ScalarTargets == {NULL_STR, S_Null, <<>>, S_q, S_s}
ListTargets == {NULL_STR, S_q, S_s}

InvRelPool ==
    { ("id" :> S_k) @@ ("description" :> S_d) @@ ("lex_ref" :> S_A) @@ v @@ w :
        v \in { Absent } \cup { ("inverse_of" :> Scalar(s)) : s \in ScalarTargets }
               \cup { ("inverse_of" :> List(ts)) :
                        ts \in UNION { [1..n -> ListTargets] : n \in 0..MaxInv } },
        w \in { Absent, ("verbs" :> <<S_x>>) } }

InitInv ==
    /\ coreDoc = ("verbs" :> << ("id" :> S_A) @@ ("synonyms" :> <<S_x>>) >>)
    /\ relsDoc \in RelsDocs(InvRelPool)
    /\ seedDoc = <<>>
    /\ drop_verbs \in BOOLEAN
    /\ now = 0
    /\ NoRuns

NextInv == (stageRuns = <<>> /\ BuildStage) \/ Validate

SpecInv == InitInv /\ [][NextInv]_vars

(* ----- merge: seed documents with unrelated top-level keys ------------- *)
SeedKeyNames == <<"taxonomies", "version", "meta">>

SeedVals == { <<>>, << ("id" :> S_zz) >> }

SeedDocs ==
    UNION { [ks -> SeedVals] :
              ks \in SUBSET ({"verbs", "rels"} \cup {SeedKeyNames[i] : i \in 1..MaxSeedKeys}) }

InitMerge ==
    /\ seedDoc \in SeedDocs
    /\ coreDoc \in { Absent, ("verbs" :> <<>>),
                      ("verbs" :> << ("id" :> S_A) @@ ("synonyms" :> <<S_x>>) >>) }
    /\ relsDoc \in { Absent } \cup RelsDocs({ ("description" :> S_d) })
    /\ drop_verbs = FALSE
    /\ now = 0
    /\ NoRuns

NextMerge == Merge

SpecMerge == InitMerge /\ [][NextMerge]_vars

(* ----- duplicates: seed documents whose verbs share synonyms ----------- *)
DupIdPool == {S_a, S_b, <<>>}
DupSynPool == {S_x, S_y, S_a}

InitDup ==
    /\ seedDoc \in { Absent } \cup LexDocs(DupIdPool, DupSynPool)
    /\ coreDoc = Absent
    /\ relsDoc = Absent
    /\ drop_verbs = FALSE
    /\ now = 0
    /\ NoRuns

NextDup == CheckDuplicates

SpecDup == InitDup /\ [][NextDup]_vars

(* ============================== claims ================================= *)
\* equal ignoring case
CiEq(a, b) == Lower(a) = Lower(b)

\* the place of item j of a mapping in the order by lowercase key, items with
\* equal lowercase keys staying in document order
PlaceOf(items, j) ==
    1 + Cardinality({ k \in 1..Len(items) :
                        \/ StrLess(Lower(items[k].key), Lower(items[j].key))
                        \/ CiEq(items[k].key, items[j].key) /\ k < j })

\* the r-th smallest member of a set of indices
Nth(I, r) == CHOOSE i \in I : Cardinality({ j \in I : j <= i }) = r

\* the subsequence of s at the indices I
Pick(s, I) == [r \in 1..Cardinality(I) |-> s[Nth(I, r)]]

DocVerbs == Get(coreDoc, "verbs", <<>>)
DocRels == Get(relsDoc, "rels", <<>>)

\* the successful runs of the stager
OkRuns == { n \in 1..Len(stageRuns) : stageRuns[n].exit = 0 }
Staged(n) == stageRuns[n].files.rels_preview.rels
StageIssues(n) == stageRuns[n].files.stage_report.issues_detail
StageSummary(n) == stageRuns[n].files.stage_report.summary

\* the reference of relation j, trimmed, names an entry of the lexicon
RefOf(j) == Strip(GetOr(DocRels[j].rel, "lex_ref", <<>>))
Naming(j) == { i \in 1..Len(DocVerbs) : Strip(DocVerbs[i]["id"]) = RefOf(j) }
ValidRef(j) == RefOf(j) # <<>> /\ Naming(j) # {}
\* the entry the index holds for it: the last one of that id
Named(j) == DocVerbs[CHOOSE i \in Naming(j) : \A i2 \in Naming(j) : i2 <= i]
DocSyns(j) == GetOr(Named(j), "synonyms", <<>>)

NoCiRepeat(s) == \A a, b \in 1..Len(s) : a # b => ~CiEq(s[a], s[b])

InvalidRef(j) == ~ValidRef(j)

\* the staged copy of relation j: the relation's own fields, id defaulted to
\* the mapping key
IsCopyOf(staged, j) ==
    /\ staged["id"] = GetOr(DocRels[j].rel, "id", DocRels[j].key)
    /\ \A f \in DOMAIN DocRels[j].rel \ {"id", "verbs", "verbs_resolved"} :
          f \in DOMAIN staged /\ staged[f] = DocRels[j].rel[f]

\* C2: after a run of the stager, every relation of the mapping has its one
\* staged copy, at its place in the case-insensitive key order; a relation
\* whose lex_ref is empty or unknown is staged with verbs_resolved = [] and
\* has exactly one invalid_lex_ref issue naming it.
C2_InvalidLexRef ==
    \A n \in OkRuns :
        /\ Len(Staged(n)) = Len(DocRels)
        /\ \A j \in 1..Len(DocRels) :
              /\ IsCopyOf(Staged(n)[PlaceOf(DocRels, j)], j)
              /\ InvalidRef(j) =>
                    /\ Staged(n)[PlaceOf(DocRels, j)]["verbs_resolved"] = <<>>
                    /\ Cardinality({ i \in 1..Len(StageIssues(n).invalid_lex_ref) :
                                       StageIssues(n).invalid_lex_ref[i].rel = DocRels[j].key })
                          = 1

\* a run staged a relation without lex_ref, reported it, and went on to
\* resolve a later relation
C2_Witness ==
    \E n \in OkRuns : \E j, j2 \in 1..Len(DocRels) :
        /\ "lex_ref" \notin DOMAIN DocRels[j].rel
        /\ PlaceOf(DocRels, j) < PlaceOf(DocRels, j2)
        /\ ValidRef(j2)
        /\ Staged(n)[PlaceOf(DocRels, j2)]["verbs_resolved"] # <<>>
        /\ Len(StageIssues(n).invalid_lex_ref) = 1

ValResult == valRuns[1].result

\* C6: the validator's status is "OK" iff every summary count is zero and
\* "ISSUES_FOUND" otherwise, every count is the number of issue records of
\* its kind, and the exit code is 0 exactly when the status is "OK".
C6_StatusAndExit ==
    valRuns # <<>> =>
        /\ DOMAIN ValResult.summary = DOMAIN ValResult.issues
        /\ \A k \in DOMAIN ValResult.issues :
              ValResult.summary[k] = Len(ValResult.issues[k])
        /\ ValResult.status = "OK" <=> \A k \in DOMAIN ValResult.summary : ValResult.summary[k] = 0
        /\ ValResult.status \in {"OK", "ISSUES_FOUND"}
        /\ valRuns[1].exit = 0 <=> ValResult.status = "OK"

\* the validator found issues of some kinds and none of another
C6_Witness ==
    /\ valRuns # <<>>
    /\ ValResult.status = "ISSUES_FOUND"
    /\ valRuns[1].exit = 1
    /\ ValResult.summary["invalid_inverse_targets"] = 0
    /\ ValResult.summary["missing_lex_ref_in_core"] = 2
    /\ ValResult.summary["empty_or_missing_fields"] = 1

\* C7: the validator records an empty_or_missing_fields issue for a relation
\* and a field of {id, description} exactly when the field is absent or
\* empty on that relation.
C7_EmptyOrMissing ==
    valRuns # <<>> =>
        \A j \in 1..Len(DocRels) : \A f \in {"id", "description"} :
            ([rel |-> DocRels[j].key, missing_field |-> f]
                 \in Range(ValResult.issues.empty_or_missing_fields))
            <=> (f \notin DOMAIN DocRels[j].rel \/ DocRels[j].rel[f] = <<>>)

\* C10: when both tools have run, the relations with an invalid_lex_ref
\* issue in the stage report are those with a missing_lex_ref_in_core issue
\* in the validator's result, and the two invalid_inverse_targets lists hold
\* the same (relation, target) pairs.
C10_ToolsAgree ==
    \A n \in OkRuns :
        valRuns # <<>> =>
            /\ { i.rel : i \in Range(StageIssues(n).invalid_lex_ref) }
                  = { i.rel : i \in Range(ValResult.issues.missing_lex_ref_in_core) }
            /\ Range(StageIssues(n).invalid_inverse_targets)
                  = Range(ValResult.issues.invalid_inverse_targets)

\* the inverse_of targets of relation j: the scalar, or the elements of the list
TargetsOf(j) ==
    IF "inverse_of" \in DOMAIN DocRels[j].rel
    THEN Range(DocRels[j].rel["inverse_of"].items)
    ELSE {}

\* a target that is neither "null" in some casing nor a relation id
Dangling(t) == ~CiEq(t, NULL_STR) /\ t \notin RelIds(DocRels)

\* C3: in the stager and in the validator, an invalid_inverse_targets issue
\* for a relation and one of its inverse_of targets is recorded exactly when
\* the target is not "null" (in any casing) and is not a relation id.
C3_InverseTargets ==
    \A j \in 1..Len(DocRels) : \A t \in TargetsOf(j) :
        /\ \A n \in OkRuns :
              ([rel |-> DocRels[j].key, target |-> t]
                   \in Range(StageIssues(n).invalid_inverse_targets)) <=> Dangling(t)
        /\ valRuns # <<>> =>
              (([rel |-> DocRels[j].key, target |-> t]
                    \in Range(ValResult.issues.invalid_inverse_targets)) <=> Dangling(t))

\* C8: all runs of the stager on the same documents write the same
\* artifacts, and the staged relations are in case-insensitive id order.
C8_SameOutput ==
    /\ \A n, m \in 1..Len(stageRuns) : stageRuns[n] = stageRuns[m]
    /\ \A n \in OkRuns : \A a, b \in 1..Len(Staged(n)) :
          a < b => ~StrLess(Lower(Staged(n)[b]["id"]), Lower(Staged(n)[a]["id"]))

\* C9: the entries written to the lexicon preview are the entries of the
\* lexicon document, and every staged relation carries the fields of its
\* source record unchanged.
C9_SourceUntouched ==
    \A n \in OkRuns :
        /\ stageRuns[n].files.lexicon_preview.verbs = DocVerbs
        /\ \A j \in 1..Len(DocRels) : IsCopyOf(Staged(n)[PlaceOf(DocRels, j)], j)

MergedDoc == mergeRuns[1]

\* C4: a merge step leaves the seed document as it was and writes a document
\* whose keys are the seed's plus verbs and rels, with verbs the lexicon's
\* verbs, rels the relation document's rels, and every other key as in the
\* seed.
C4_MergeFrame ==
    [][ mergeRuns' # mergeRuns =>
          /\ seedDoc' = seedDoc
          /\ DOMAIN MergedDoc' = DOMAIN seedDoc \cup {"verbs", "rels"}
          /\ MergedDoc'["verbs"] = Get(coreDoc, "verbs", <<>>)
          /\ MergedDoc'["rels"] = Get(relsDoc, "rels", <<>>)
          /\ \A k \in DOMAIN seedDoc \ {"verbs", "rels"} : MergedDoc'[k] = seedDoc[k] ]_vars

\* a merge replaced the seed's own verbs and kept an unrelated key
C4_Witness ==
    /\ mergeRuns # <<>>
    /\ "verbs" \in DOMAIN seedDoc
    /\ seedDoc["verbs"] # MergedDoc["verbs"]
    /\ \E k \in DOMAIN seedDoc \ {"verbs", "rels"} : MergedDoc[k] = seedDoc[k] /\ seedDoc[k] # <<>>

SeedVerbs == Get(seedDoc, "verbs", <<>>)

\* the ids of the entries that list synonym x
OwnersOf(x) ==
    { SeedVerbs[i]["id"] :
        i \in { i2 \in 1..Len(SeedVerbs) :
                  /\ GetOr(SeedVerbs[i2], "id", <<>>) # <<>>
                  /\ x \in Range(Get(SeedVerbs[i2], "synonyms", <<>>)) } }

\* C5: the cross-entry check reports a synonym exactly when two or more
\* distinct verb ids list it, and the record names all of them.
C5_CrossEntry ==
    dupRuns # <<>> =>
        \A x \in UNION { Range(Get(SeedVerbs[i], "synonyms", <<>>)) : i \in 1..Len(SeedVerbs) } :
            /\ (\E d \in Range(dupRuns[1].duplicate_synonyms) : d.syn = x)
                  <=> Cardinality(OwnersOf(x)) >= 2
            /\ \A d \in Range(dupRuns[1].duplicate_synonyms) :
                  d.syn = x => Range(d.primaries) = OwnersOf(x)

====
